---- MODULE Spec2Model ----
(***************************************************************************)
(* Model of the attribution engine of backend/engines/attribution/engine.py *)
(* (MarkovAttribution, ShapleyAttribution, HybridAttribution and            *)
(* AttributionEngine.run_analysis), of compute_uncertainty of               *)
(* backend/api/router.py, and of merge_event_streams and ChannelTaxonomy of *)
(* src/adapters.                                                            *)
(*                                                                          *)
(* Spec: one caller of run_analysis or HybridAttribution at a time.         *)
(* SpecToy: the same on the toy data set.  SpecShapley: a caller that keeps *)
(* a ShapleyAttribution and calls it repeatedly.  SpecConcurrent: two       *)
(* threads calling run_analysis on one engine.  SpecEngine: one caller      *)
(* making call after call on an engine it keeps.  SpecRouter: requests to   *)
(* the uncertainty operation.  SpecMerge: callers of merge_event_streams.   *)
(* SpecTaxonomy: callers constructing and using ChannelTaxonomy instances.  *)
(*                                                                          *)
(* Python floats are modelled as exact rationals <<numerator, denominator>> *)
(* in lowest terms with a positive denominator, so "== 0" and "sums to 1"   *)
(* are exact.  A division by zero is the ZeroDivisionError Python raises.   *)
(* A dict is a function whose DOMAIN is its key set.                        *)
(***************************************************************************)
EXTENDS Integers, Sequences, FiniteSets, TLC

\* ------------------------------------------------------------------ bounds
\* the longest journey list a caller passes
MaxJourneys == 2

\* the longest event list a caller passes first to merge_event_streams
MaxEvents == 2

\* the longest journey list of an engine that is kept between calls
MaxKeptJourneys == 1

\* ------------------------------------------------------- program constants
\* ShapleyAttribution.__init__(journeys, max_iterations=1000)
DefaultMaxIterations == 1000

\* the channel names journeys are drawn from, in sorted() order
ChannelOrder == <<"A", "B">>

Channels == {ChannelOrder[i] : i \in 1..Len(ChannelOrder)}

\* paths are as long as it takes to touch every channel name once
MaxPathLen == Len(ChannelOrder)

\* names a caller may pass in filter_channels ("C" occurs in no journey)
FilterNames == Channels \cup {"C"}

\* ---------------------------------------------------------------- rationals
Abs(x) == IF x < 0 THEN -x ELSE x

RECURSIVE GCD(_, _)
GCD(a, b) == IF b = 0 THEN a ELSE GCD(b, a % b)

\* the rational n/d (d # 0) in lowest terms
Rat(n, d) ==
    LET g == GCD(Abs(n), Abs(d))
        s == IF d < 0 THEN -1 ELSE 1
    IN  <<(s * n) \div g, (s * d) \div g>>

Zero == <<0, 1>>

One == <<1, 1>>

RAdd(x, y) == Rat(x[1] * y[2] + y[1] * x[2], x[2] * y[2])

RSub(x, y) == Rat(x[1] * y[2] - y[1] * x[2], x[2] * y[2])

RMul(x, y) == Rat(x[1] * y[1], x[2] * y[2])

\* x / y for y # 0
RDiv(x, y) == Rat(x[1] * y[2], x[2] * y[1])

RLeq(x, y) == x[1] * y[2] <= y[1] * x[2]

RLt(x, y) == x[1] * y[2] < y[1] * x[2]

RMax(x, y) == IF RLeq(x, y) THEN y ELSE x

\* sum(d.values()) of a dict with rational values
RECURSIVE SumValues(_)
SumValues(d) ==
    IF DOMAIN d = {} THEN Zero
    ELSE LET k == CHOOSE k \in DOMAIN d : TRUE
         IN  RAdd(d[k], SumValues([x \in DOMAIN d \ {k} |-> d[x]]))

\* Python's "x or 1" on a float
OrOne(x) == IF x = Zero THEN One ELSE x

EmptyDict == [x \in {} |-> Zero]

\* ---------------------------------------------------------------- journeys
Paths == UNION {[1..n -> Channels] : n \in 0..MaxPathLen}

JourneyValues == [path : Paths, conversion : BOOLEAN]

\* position of a channel name in sorted() order
ChannelIndex(c) == CHOOSE i \in 1..Len(ChannelOrder) : ChannelOrder[i] = c

RECURSIVE PathCode(_, _)
PathCode(path, k) ==
    IF k > Len(path) THEN 0
    ELSE ChannelIndex(path[k]) + (Len(ChannelOrder) + 1) * PathCode(path, k + 1)

\* an arbitrary total order on journey values
JourneyRank(j) == 2 * PathCode(j.path, 1) + (IF j.conversion THEN 1 ELSE 0)

\* The journey lists a caller may pass.  No operation of the engine reads a
\* journey's position in the list, so the lists are enumerated up to
\* reordering: one list per multiset of journeys.
JourneyLists ==
    {js \in UNION {[1..n -> JourneyValues] : n \in 0..MaxJourneys} :
        \A i \in 1..(Len(js) - 1) : JourneyRank(js[i]) <= JourneyRank(js[i + 1])}

\* any(tp.channel == channel for tp in j.path)
HasChannel(j, c) == \E i \in 1..Len(j.path) : j.path[i] = c

\* sum(1 for j in js if j.conversion)
CountConversions(js) == Cardinality({i \in 1..Len(js) : js[i].conversion})

\* _extract_channels
ExtractChannels(js) ==
    UNION {{js[i].path[k] : k \in 1..Len(js[i].path)} : i \in 1..Len(js)}

\* sorted(channels)
SortedChannels(S) == SelectSeq(ChannelOrder, LAMBDA c : c \in S)

\* ------------------------------------------------------ MarkovAttribution
\* conversions_without: journeys containing c that did NOT convert
ConversionsWithout(js, c) ==
    Cardinality({i \in 1..Len(js) : HasChannel(js[i], c) /\ ~js[i].conversion})

JourneysWith(js, c) == Cardinality({i \in 1..Len(js) : HasChannel(js[i], c)})

\* removal_effect of line 149, before the clamp; baseline # 0
RemovalEffect(js, c, baseline) ==
    RDiv(RSub(baseline, Rat(ConversionsWithout(js, c), JourneysWith(js, c))),
         baseline)

\* removal_effects[channel] = max(0.0, removal_effect)
StoredRemovalEffect(removal_effect) == RMax(Zero, removal_effect)

\* attributions[channel] = removal_effect / total_effect, where total_effect
\* is the sum of the removal effects stored so far (this channel included)
AttributionShare(removal_effect, removal_effects) ==
    RDiv(removal_effect, OrOne(SumValues(removal_effects)))

\* the for-loop of calculate_attribution over channel_list[k..]
RECURSIVE MarkovLoop(_, _, _, _, _, _)
MarkovLoop(js, channel_list, k, baseline, removal_effects, attributions) ==
    IF k > Len(channel_list)
    THEN [raised |-> FALSE, attributions |-> attributions,
          removal_effects |-> removal_effects]
    ELSE LET channel == channel_list[k] IN
         IF JourneysWith(js, channel) = 0
         THEN MarkovLoop(js, channel_list, k + 1, baseline,
                         removal_effects @@ (channel :> Zero), attributions)
         ELSE IF baseline = Zero
         THEN [raised |-> TRUE, attributions |-> attributions,
               removal_effects |-> removal_effects]
         ELSE LET removal_effect == RemovalEffect(js, channel, baseline)
                  effects == (channel :> StoredRemovalEffect(removal_effect))
                             @@ removal_effects
              IN  MarkovLoop(js, channel_list, k + 1, baseline, effects,
                             (channel :> AttributionShare(removal_effect, effects))
                             @@ attributions)

\* calculate_attribution without its "if not self.journeys" guard: the
\* baseline rate divides by len(self.journeys) = 0
CalculateAttributionNoGuard(js) ==
    IF Len(js) = 0
    THEN [raised |-> TRUE, attributions |-> EmptyDict,
          removal_effects |-> EmptyDict]
    ELSE MarkovLoop(js, SortedChannels(ExtractChannels(js)), 1,
                    Rat(CountConversions(js), Len(js)), EmptyDict, EmptyDict)

\* MarkovAttribution(js).calculate_attribution()
CalculateAttribution(js) ==
    IF Len(js) = 0
    THEN [raised |-> FALSE, attributions |-> EmptyDict,
          removal_effects |-> EmptyDict]
    ELSE MarkovLoop(js, SortedChannels(ExtractChannels(js)), 1,
                    Rat(CountConversions(js), Len(js)), EmptyDict, EmptyDict)

NoResult == [populated |-> FALSE]

\* ---- _build_transition_matrix
\* the keys a row of the transition table can hold
NextStates == Channels \cup {"conversion"}

\* transitions = defaultdict(lambda: defaultdict(int))
NoTransitions == [c \in Channels |-> [d \in NextStates |-> 0]]

\* path_counts = defaultdict(int)
NoPathCounts == [p \in Paths |-> 0]

\* how often the for-loop over range(len(path_channels) - 1) meets (c, d)
AdjacentPairs(path, c, d) ==
    Cardinality({k \in 1..(Len(path) - 1) : path[k] = c /\ path[k + 1] = d})

\* the for-loop of _build_transition_matrix over js[i..]: the counts it
\* leaves in transitions
RECURSIVE CountTransitions(_, _, _, _)
CountTransitions(js, i, transitions, path_counts) ==
    IF i > Len(js) THEN transitions
    ELSE LET path == js[i].path IN
         IF Len(path) < 1
         THEN CountTransitions(js, i + 1, transitions, path_counts)
         ELSE LET counts == [path_counts EXCEPT ![path] = @ + 1]
                  last == path[Len(path)]
                  stepped ==
                     [c \in Channels |-> [d \in NextStates |->
                        transitions[c][d] +
                        (IF d = "conversion"
                         THEN (IF c = last THEN counts[path] ELSE 0)
                         ELSE AdjacentPairs(path, c, d))]]
              IN  CountTransitions(js, i + 1, stepped, counts)

\* sum(row.values()) of a dict of ints
RECURSIVE SumCounts(_)
SumCounts(row) ==
    IF DOMAIN row = {} THEN 0
    ELSE LET k == CHOOSE k \in DOMAIN row : TRUE
         IN  row[k] + SumCounts([x \in DOMAIN row \ {k} |-> row[x]])

\* the row total without the transitions to "conversion"
RowTotalNoConversion(row) ==
    LET total == SumCounts([d \in DOMAIN row \ {"conversion"} |-> row[d]])
    IN  IF total = 0 THEN 1 ELSE total

\* total = sum(transitions[channel].values()) or 1
RowTotal(row) ==
    LET total == SumCounts(row) IN IF total = 0 THEN 1 ELSE total

\* _build_transition_matrix: one row per channel of self.channels, one
\* entry per channel of self.channels plus "conversion"
BuildTransitionMatrix(js) ==
    LET transitions == CountTransitions(js, 1, NoTransitions, NoPathCounts)
        channel_list == ExtractChannels(js)
    IN  [c \in channel_list |->
            [d \in channel_list \cup {"conversion"} |->
                Rat(transitions[c][d], RowTotal(transitions[c]))]]

\* ---- the confidence intervals of get_full_result
\* A bound of an interval is a + k * sqrt(r) for rationals a, r >= 0 and an
\* integer k: np.sqrt is kept symbolic, and comparisons are decided exactly.
Surd(a, k, r) == [a |-> a, k |-> k, r |-> r]

\* -1, 0 or 1: the sign of a + k * sqrt(r)
SurdSign(x) ==
    LET RatSign(q) == IF q[1] < 0 THEN -1 ELSE IF q[1] = 0 THEN 0 ELSE 1
        root == RMul(Rat(x.k * x.k, 1), x.r)
        square == RMul(x.a, x.a)
    IN  IF x.k = 0 \/ x.r = Zero THEN RatSign(x.a)
        ELSE IF x.k > 0
        THEN (IF RLeq(Zero, x.a) THEN 1
              ELSE IF RLt(square, root) THEN 1
              ELSE IF square = root THEN 0 ELSE -1)
        ELSE (IF RLeq(x.a, Zero) THEN -1
              ELSE IF RLt(square, root) THEN -1
              ELSE IF square = root THEN 0 ELSE 1)

\* x <= y for two bounds over the same square root
SurdLeq(x, y) ==
    SurdSign(Surd(RSub(x.a, y.a), x.k - y.k, IF x.k # 0 THEN x.r ELSE y.r)) <= 0

\* 1.96 squared: ci = 1.96 * std_error = sqrt(1.96^2 * variance)
QuantileSquared == Rat(2401, 625)

\* lines 168-185: the interval of one channel
ConfidenceInterval(js, attributions, channel) ==
    LET base_rate == IF Len(js) > 0 THEN Rat(CountConversions(js), Len(js))
                     ELSE Zero
        attribution == IF channel \in DOMAIN attributions
                       THEN attributions[channel] ELSE Zero
    IN  IF JourneysWith(js, channel) > 0
        THEN LET ci_squared ==
                    RMul(QuantileSquared,
                         RDiv(RMul(base_rate, RSub(One, base_rate)),
                              Rat(JourneysWith(js, channel), 1)))
                  below == Surd(attribution, -1, ci_squared)
             IN  [low |-> IF SurdSign(below) > 0 THEN below
                          ELSE Surd(Zero, 0, Zero),
                  high |-> Surd(attribution, 1, ci_squared)]
        ELSE [low |-> Surd(Zero, 0, Zero), high |-> Surd(Zero, 0, Zero)]

\* MarkovAttribution(js).get_full_result(), given calculate_attribution()
\* returned m
MarkovFullResult(js, m) ==
    [populated |-> TRUE,
     channel_attributions |-> m.attributions,
     transition_matrix |-> BuildTransitionMatrix(js),
     removal_effects |-> m.removal_effects,
     total_conversions |-> CountConversions(js),
     confidence_interval |->
        [c \in ExtractChannels(js) |->
            ConfidenceInterval(js, m.attributions, c)]]

\* ----------------------------------------------------- ShapleyAttribution
\* the journeys whose whole path lies inside channel_set
RelevantJourneys(js, channel_set) ==
    {i \in 1..Len(js) :
        \A k \in 1..Len(js[i].path) : js[i].path[k] \in channel_set}

\* the rate _get_conversion_rate computes on a cache miss
ComputeConversionRate(js, channel_set) ==
    LET relevant == RelevantJourneys(js, channel_set) IN
    IF relevant = {} THEN Zero
    ELSE Rat(Cardinality({i \in relevant : js[i].conversion}),
             Cardinality(relevant))

\* a lookup whose cache hit loses the stored rate
GetConversionRateStale(cache, js, channel_set) ==
    IF channel_set \in DOMAIN cache THEN Zero
    ELSE ComputeConversionRate(js, channel_set)

\* _get_conversion_rate: the value returned under cache `cache`
GetConversionRate(cache, js, channel_set) ==
    IF channel_set \in DOMAIN cache THEN cache[channel_set]
    ELSE ComputeConversionRate(js, channel_set)

\* a lookup that does not store what it computed
CacheAfterForgotten(cache, js, channel_set) == cache

\* _get_conversion_rate: the cache it leaves
CacheAfter(cache, js, channel_set) ==
    IF channel_set \in DOMAIN cache THEN cache
    ELSE (channel_set :> ComputeConversionRate(js, channel_set)) @@ cache

\* _get_conversion_rate: the coalitions whose rate it has computed from the
\* journeys (lines 223-232 reached), each with the number of times
ComputedAfter(computed, cache, channel_set) ==
    IF channel_set \in DOMAIN cache THEN computed
    ELSE (channel_set :> (IF channel_set \in DOMAIN computed
                          THEN computed[channel_set] ELSE 0) + 1) @@ computed

\* the contribution measured against the empty coalition, whatever the
\* coalition built so far
MarginalContributionAlone(cache, js, channel, coalition) ==
    RSub(GetConversionRate(cache, js, {channel}),
         GetConversionRate(CacheAfter(cache, js, {channel}), js, {}))

\* _marginal_contribution(channel, coalition): value_with - value_without
MarginalContribution(cache, js, channel, coalition) ==
    LET coalition_with == coalition \cup {channel}
        coalition_without == coalition \ {channel}
    IN  RSub(GetConversionRate(cache, js, coalition_with),
             GetConversionRate(CacheAfter(cache, js, coalition_with), js,
                               coalition_without))

MarginalCacheAfter(cache, js, channel, coalition) ==
    CacheAfter(CacheAfter(cache, js, coalition \cup {channel}), js,
               coalition \ {channel})

MarginalComputedAfter(computed, cache, js, channel, coalition) ==
    ComputedAfter(ComputedAfter(computed, cache, coalition \cup {channel}),
                  CacheAfter(cache, js, coalition \cup {channel}),
                  coalition \ {channel})

\* the inner loop of calculate_shapley_values over permutation[i..]:
\* acc = [shapley_values, marginal_count, cache, computed]
RECURSIVE WalkPermutation(_, _, _, _, _)
WalkPermutation(js, permutation, i, coalition, acc) ==
    IF i > Len(permutation) THEN acc
    ELSE LET channel == permutation[i]
             mc == MarginalContribution(acc.cache, js, channel, coalition)
         IN  WalkPermutation(js, permutation, i + 1, coalition \cup {channel},
                [shapley_values |->
                    [acc.shapley_values EXCEPT ![channel] = RAdd(@, mc)],
                 marginal_count |->
                    [acc.marginal_count EXCEPT ![channel] = @ + 1],
                 cache |-> MarginalCacheAfter(acc.cache, js, channel, coalition),
                 computed |-> MarginalComputedAfter(acc.computed, acc.cache, js,
                                                    channel, coalition)])

\* the orderings np.random.shuffle can leave channel_list in
ShuffleOutcomes(S) ==
    {p \in [1..Cardinality(S) -> S] : \A c \in S : \E i \in DOMAIN p : p[i] = c}

RECURSIVE Pow2(_)
Pow2(n) == IF n = 0 THEN 1 ELSE 2 * Pow2(n - 1)

Min(a, b) == IF a <= b THEN a ELSE b

\* num_samples = min(self.max_iterations, 2 ** n); no sampling at all when
\* the journeys or the channel set are empty (early return of line 253)
NumSamples(js, max_iterations) ==
    IF Len(js) = 0 \/ ExtractChannels(js) = {} THEN 0
    ELSE IF max_iterations <= 0 THEN 0
    ELSE Min(max_iterations, Pow2(Cardinality(ExtractChannels(js))))

\* lines 279-283: the mean of each channel's marginal contributions
RawShapleyValues(shapley_values, marginal_count) ==
    [c \in DOMAIN shapley_values |->
        IF marginal_count[c] > 0
        THEN RDiv(shapley_values[c], Rat(marginal_count[c], 1))
        ELSE Zero]

\* the values returned as they are, the division by the total left out
NormalizeValuesSkipped(raw) == [c \in DOMAIN raw |-> raw[c]]

\* lines 285-291: value / (sum or 1)
NormalizeValues(raw) ==
    [c \in DOMAIN raw |-> RDiv(raw[c], OrOne(SumValues(raw)))]

\* calculate_shapley_values(), once its sampling loop has run
ShapleyValues(js, shapley_values, marginal_count) ==
    IF Len(js) = 0 \/ ExtractChannels(js) = {} THEN EmptyDict
    ELSE NormalizeValues(RawShapleyValues(shapley_values, marginal_count))

\* ShapleyAttribution.get_full_result()
ShapleyFullResult(js, values, max_iterations) ==
    LET total_value == OrOne(SumValues(values)) IN
    [populated |-> TRUE,
     channel_values |-> values,
     marginal_contributions |->
        [c \in ExtractChannels(js) |->
            <<values[c],
              IF RLt(Zero, total_value)
              THEN RMul(RDiv(values[c], total_value), Rat(100, 1))
              ELSE Zero>>],
     convergence |-> TRUE,
     iterations |-> Min(max_iterations, Pow2(Cardinality(ExtractChannels(js))))]

\* ------------------------------------------------------ HybridAttribution
\* lines 338-348: the blend over self.channels, divided by (its sum or 1)
HybridBlend(channels, alpha, markov_result, shapley_result) ==
    LET Get(d, c) == IF c \in DOMAIN d THEN d[c] ELSE Zero
        hybrid == [c \in channels |->
                      RAdd(RMul(RSub(One, alpha), Get(markov_result, c)),
                           RMul(alpha, Get(shapley_result, c)))]
    IN  NormalizeValues(hybrid)

\* markov_ci = shapley_ci = 0.05
FixedCI == Rat(5, 100)

\* HybridAttribution.get_full_result()
HybridFullResult(channels, alpha, hybrid) ==
    LET width == RAdd(RMul(alpha, FixedCI), RMul(RSub(One, alpha), FixedCI)) IN
    [populated |-> TRUE,
     channel_attributions |-> hybrid,
     alpha_used |-> alpha,
     markov_weight |-> RSub(One, alpha),
     shapley_weight |-> alpha,
     confidence_intervals |->
        [c \in channels |->
            [low |-> RMax(Zero, RSub(hybrid[c], width)),
             high |-> RMax(Zero, RAdd(hybrid[c], width))]]]

\* ----------------------------------------------------- AttributionEngine
\* a caller's filter_channels: None, or a list of names
NoFilter == [given |-> FALSE, names |-> <<>>]

\* the filters callers pass here: none, or one channel name
FilterInputs ==
    {NoFilter} \cup {[given |-> TRUE, names |-> <<c>>] : c \in FilterNames}

\* "if filter_channels:" -- None and the empty list are both falsy
FilterApplies(fc) == fc.given /\ Len(fc.names) > 0

FilterSet(fc) == {fc.names[i] : i \in 1..Len(fc.names)}

\* the filter with all() for any(): only journeys wholly inside the filter
FilterJourneysAll(js, fc) ==
    IF FilterApplies(fc)
    THEN SelectSeq(js, LAMBDA j :
            \A k \in 1..Len(j.path) : j.path[k] \in FilterSet(fc))
    ELSE js

\* lines 411-417
FilterJourneys(js, fc) ==
    IF FilterApplies(fc)
    THEN SelectSeq(js, LAMBDA j : \E c \in FilterSet(fc) : HasChannel(j, c))
    ELSE js

\* lines 435-441
AnalysisChannels(fj, fc) ==
    IF FilterApplies(fc) THEN ExtractChannels(fj) \cap FilterSet(fc)
    ELSE ExtractChannels(fj)

\* index of the first occurrence of c in path (0-based), c in path
FirstIndex(path, c) ==
    (CHOOSE i \in 1..Len(path) :
        path[i] = c /\ \A k \in 1..(i - 1) : path[k] # c) - 1

\* the positions divided by len(path) instead of max(len(path) - 1, 1)
RECURSIVE SumPositionsByLength(_, _, _)
SumPositionsByLength(fj, c, i) ==
    IF i > Len(fj) THEN Zero
    ELSE IF HasChannel(fj[i], c)
    THEN RAdd(Rat(FirstIndex(fj[i].path, c), Len(fj[i].path)),
              SumPositionsByLength(fj, c, i + 1))
    ELSE SumPositionsByLength(fj, c, i + 1)

\* sum over the journeys fj[i..] that contain c of i / max(len(path) - 1, 1)
RECURSIVE SumPositions(_, _, _)
SumPositions(fj, c, i) ==
    IF i > Len(fj) THEN Zero
    ELSE IF HasChannel(fj[i], c)
    THEN RAdd(Rat(FirstIndex(fj[i].path, c),
                  IF Len(fj[i].path) - 1 > 1 THEN Len(fj[i].path) - 1 ELSE 1),
              SumPositions(fj, c, i + 1))
    ELSE SumPositions(fj, c, i + 1)

\* the metrics with touchpoint_count counting touchpoints, not journeys
ChannelMetricsPerTouchpoint(fj, channels) ==
    [c \in {x \in channels : JourneysWith(fj, x) > 0} |->
        [touchpoint_count |->
            Cardinality({ik \in (1..Len(fj)) \X (1..MaxPathLen) :
                ik[2] <= Len(fj[ik[1]].path) /\ fj[ik[1]].path[ik[2]] = c}),
         conversion_rate |->
            Rat(Cardinality({i \in 1..Len(fj) :
                    HasChannel(fj[i], c) /\ fj[i].conversion}),
                JourneysWith(fj, c)),
         avg_position |->
            RDiv(SumPositions(fj, c, 1), Rat(JourneysWith(fj, c), 1))]]

\* _calculate_channel_metrics, keyed by ChannelMetrics.channel
ChannelMetrics(fj, channels) ==
    [c \in {x \in channels : JourneysWith(fj, x) > 0} |->
        [touchpoint_count |-> JourneysWith(fj, c),
         conversion_rate |->
            Rat(Cardinality({i \in 1..Len(fj) :
                    HasChannel(fj[i], c) /\ fj[i].conversion}),
                JourneysWith(fj, c)),
         avg_position |->
            RDiv(SumPositions(fj, c, 1), Rat(JourneysWith(fj, c), 1))]]

\* the dict run_analysis returns (processing_time_ms left out)
AnalysisResult(fj, fc, markov_result, shapley_result, hybrid_result) ==
    [status |-> "success",
     total_journeys |-> Len(fj),
     total_conversions |-> CountConversions(fj),
     unique_channels |-> Cardinality(AnalysisChannels(fj, fc)),
     markov_result |-> markov_result,
     shapley_result |-> shapley_result,
     hybrid_result |-> hybrid_result,
     channel_metrics |-> ChannelMetrics(fj, AnalysisChannels(fj, fc)),
     channels_summary |->
        [c \in AnalysisChannels(fj, fc) |-> JourneysWith(fj, c)]]

\* the values of alpha callers pass
Alphas == {Zero, Rat(1, 2), One}

\* alpha is a plain float parameter of run_analysis: nothing on the way to
\* the model selection checks its range, so callers can pass these too
OutOfRangeAlphas == {Rat(-1, 2), Rat(3, 2)}

\* the selection with its "elif alpha == 1" branch lost
SelectModelNoShapley(alpha) ==
    IF alpha = Zero THEN "markov" ELSE "hybrid"

\* lines 419-433: which model run_analysis runs
SelectModel(alpha) ==
    IF alpha = Zero THEN "markov"
    ELSE IF alpha = One THEN "shapley"
    ELSE "hybrid"

\* ------------------------------------------- adapters.channel_taxonomy
\* CHANNEL_MAPPINGS is a dict of dicts.  A dict is an object: two names can
\* hold the same one, so the inner dicts live in a heap, by identity, and
\* CHANNEL_MAPPINGS and every ChannelTaxonomy.mappings map a source to the
\* identity of its inner dict.  normalize is called as the validation test
\* calls it, with url and utm_campaign left at '', so the 'domains' and
\* 'utm_patterns' entries are never read and are left out.

\* CHANNEL_MAPPINGS: source -> identity of its inner dict
ChannelMappings == [ga |-> 1, facebook |-> 2]

\* the inner dicts of CHANNEL_MAPPINGS as the module defines them (a few of
\* their entries)
ModuleDicts ==
    <<[cpc |-> "Paid Search", email |-> "Email"],
      [fb |-> "Organic Social"]>>

\* the raw channel names callers pass
RawChannels == {"", "cpc", "CPC", "fb", "promo"}

\* the sources callers name
SourceNames == {"ga", "facebook", "crm"}

\* raw_channel.lower().strip()
Lower(raw) == IF raw = "CPC" THEN "cpc" ELSE raw

\* _fuzzy_match: none of the raw names here contains one of its patterns
FuzzyMatch(raw) == "None"

NoMappings == [given |-> FALSE, source |-> "", mapping |-> EmptyDict]

\* the custom_mappings callers pass: None, or one source with one entry
CustomMappings ==
    {NoMappings} \cup
    {[given |-> TRUE, source |-> s, mapping |-> (r :> "Partner")] :
        s \in {"ga", "crm"}, r \in {"cpc", "promo"}}

\* d.update(mapping) on dict d
Update(d, mapping) ==
    [k \in DOMAIN d \cup DOMAIN mapping |->
        IF k \in DOMAIN mapping THEN mapping[k] ELSE d[k]]

NotNormalized == [status |-> "none"]

\* ------------------------------------------------------------------- state
VARIABLES
    journeys,               \* AttributionEngine.journeys
    pc,                     \* "idle", "sampling", "blended", "returned", "raised"
    call,                   \* the operation in progress and its arguments
    filtered_journeys,      \* the journeys the models of this call were built on
    shapley_values,         \* calculate_shapley_values: the running sums
    marginal_count,         \* len(marginal_contributions[channel])
    samples,                \* iterations of the sampling loop done so far
    conversion_rate_cache,  \* ShapleyAttribution.conversion_rate_cache
    shapley_result,         \* what calculate_shapley_values returned
    hybrid,                 \* what HybridAttribution.calculate_attribution returned
    result,                 \* what the call returned, or the error it raised
    computed,               \* coalition -> times its rate was computed from the journeys
    drawn,                  \* the permutations drawn so far by the run in progress
    previous,               \* the run before it on the same ShapleyAttribution
    engine_hybrid,          \* AttributionEngine.hybrid (self.hybrid)
    left_hybrid,            \* what self.hybrid held when the call in progress began
    threads,                \* the run_analysis call of each thread sharing the engine
    merge_call,             \* merge_event_streams: the call and its arguments
    merged,                 \* the list merge_event_streams returned
    merged_before,          \* the list the call before it returned
    heap,                   \* the dict objects of channel_taxonomy, by identity
    taxonomies,             \* the ChannelTaxonomy instances constructed so far
    normalized              \* the last normalize / normalize_channel call and its value

\* the state of one call of the engine or of one of its models
call_vars == <<pc, call, filtered_journeys, shapley_values, marginal_count,
               samples, conversion_rate_cache, shapley_result, hybrid, result,
               computed, drawn, previous>>

\* the state of adapters.merge_event_streams
merge_vars == <<merge_call, merged, merged_before>>

\* the state of adapters.channel_taxonomy
taxonomy_vars == <<heap, taxonomies, normalized>>

adapter_vars == <<merge_vars, taxonomy_vars>>

vars == <<journeys, call_vars, engine_hybrid, left_hybrid, threads,
          adapter_vars>>

NoCall == [name |-> "none", alpha |-> Zero, filter_channels |-> NoFilter,
           max_iterations |-> DefaultMaxIterations]

NoOutcome == [status |-> "none"]

Raised == [status |-> "ZeroDivisionError"]

\* self.hybrid = None
None == [none |-> TRUE]

\* self.hybrid = HybridAttribution(js, alpha)
HybridInstance(js, alpha) == [none |-> FALSE, journeys |-> js, alpha |-> alpha]

\* a thread that is not inside run_analysis
IdleThread == [pc |-> "idle", alpha |-> Zero, outcome |-> NoOutcome]

\* the threads that share one AttributionEngine
Threads == {1, 2}

\* merge_event_streams is not being called
NoMerge == [pc |-> "idle", event_lists |-> <<>>, sort_by_time |-> TRUE,
            deduplicate |-> TRUE]

\* no earlier run on this ShapleyAttribution
NoPrevious == [ran |-> FALSE, drawn |-> <<>>, channel_values |-> EmptyDict]

InitCall ==
    /\ pc = "idle"
    /\ call = NoCall
    /\ filtered_journeys = <<>>
    /\ shapley_values = EmptyDict
    /\ marginal_count = EmptyDict
    /\ samples = 0
    /\ conversion_rate_cache = EmptyDict
    /\ shapley_result = EmptyDict
    /\ hybrid = EmptyDict
    /\ result = NoOutcome
    /\ computed = EmptyDict
    /\ drawn = <<>>
    /\ previous = NoPrevious
    /\ engine_hybrid = None
    /\ left_hybrid = None
    /\ threads = [t \in Threads |-> IdleThread]
    /\ merge_call = NoMerge
    /\ merged = <<>>
    /\ merged_before = <<>>
    /\ heap = ModuleDicts
    /\ taxonomies = <<>>
    /\ normalized = NotNormalized

Init == journeys \in JourneyLists /\ InitCall

\* a fresh ShapleyAttribution starts its sampling loop on js
StartSampling(js) ==
    /\ pc' = "sampling"
    /\ shapley_values' = [c \in ExtractChannels(js) |-> Zero]
    /\ marginal_count' = [c \in ExtractChannels(js) |-> 0]
    /\ samples' = 0
    /\ conversion_rate_cache' = EmptyDict
    /\ result' = NoOutcome
    /\ computed' = EmptyDict
    /\ drawn' = <<>>
    /\ previous' = NoPrevious

\* the call ends before any sampling
EndCall(outcome) ==
    /\ pc' = IF outcome = Raised THEN "raised" ELSE "returned"
    /\ result' = outcome
    /\ UNCHANGED <<shapley_values, marginal_count, samples,
                   conversion_rate_cache, computed, drawn, previous>>

\* AttributionEngine.run_analysis(alpha, filter_channels=fc), up to the
\* first shuffle
RunAnalysis(alpha, fc) ==
    /\ pc = "idle"
    /\ call' = [name |-> "run_analysis", alpha |-> alpha,
                filter_channels |-> fc, max_iterations |-> DefaultMaxIterations]
    /\ filtered_journeys' = FilterJourneys(journeys, fc)
    /\ LET fj == FilterJourneys(journeys, fc)
           m == CalculateAttribution(fj)
       IN  IF SelectModel(alpha) = "markov"
           THEN EndCall(IF m.raised THEN Raised
                        ELSE AnalysisResult(fj, fc, MarkovFullResult(fj, m),
                                            NoResult, NoResult))
           ELSE IF SelectModel(alpha) = "hybrid" /\ m.raised
           THEN EndCall(Raised)
           ELSE StartSampling(fj)
    /\ engine_hybrid' =
            IF SelectModel(alpha) = "hybrid"
            THEN HybridInstance(FilterJourneys(journeys, fc), alpha)
            ELSE None
    /\ UNCHANGED <<journeys, left_hybrid, threads, adapter_vars>>
    /\ UNCHANGED <<shapley_result, hybrid>>

\* HybridAttribution(journeys, alpha).get_full_result(), up to the first
\* shuffle
HybridCall(alpha) ==
    /\ pc = "idle"
    /\ call' = [name |-> "hybrid", alpha |-> alpha,
                filter_channels |-> NoFilter,
                max_iterations |-> DefaultMaxIterations]
    /\ filtered_journeys' = journeys
    /\ IF CalculateAttribution(journeys).raised
       THEN EndCall(Raised)
       ELSE StartSampling(journeys)
    /\ UNCHANGED <<journeys, engine_hybrid, left_hybrid, threads, adapter_vars>>
    /\ UNCHANGED <<shapley_result, hybrid>>

\* one iteration of the sampling loop (lines 267-277)
Sample(permutation) ==
    /\ pc = "sampling"
    /\ samples < NumSamples(filtered_journeys, call.max_iterations)
    /\ LET acc == WalkPermutation(filtered_journeys, permutation, 1, {},
                     [shapley_values |-> shapley_values,
                      marginal_count |-> marginal_count,
                      cache |-> conversion_rate_cache,
                      computed |-> computed])
       IN  /\ shapley_values' = acc.shapley_values
           /\ marginal_count' = acc.marginal_count
           /\ conversion_rate_cache' = acc.cache
           /\ computed' = acc.computed
    /\ samples' = samples + 1
    /\ drawn' = IF call.name = "shapley" THEN Append(drawn, permutation)
                ELSE drawn
    /\ UNCHANGED <<journeys, engine_hybrid, left_hybrid, threads, adapter_vars>>
    /\ UNCHANGED <<pc, call, filtered_journeys, shapley_result,
                   hybrid, result, previous>>

\* the sampling loop is over: calculate_shapley_values returns, and with it
\* the Shapley-only branch of run_analysis
FinishShapley ==
    /\ pc = "sampling"
    /\ samples = NumSamples(filtered_journeys, call.max_iterations)
    /\ call.name = "run_analysis" /\ SelectModel(call.alpha) = "shapley"
    /\ LET values == ShapleyValues(filtered_journeys, shapley_values,
                                   marginal_count)
       IN  /\ shapley_result' = values
           /\ result' = AnalysisResult(filtered_journeys, call.filter_channels,
                  NoResult,
                  ShapleyFullResult(filtered_journeys, values,
                                    call.max_iterations),
                  NoResult)
    /\ pc' = "returned"
    /\ UNCHANGED <<journeys, engine_hybrid, left_hybrid, threads, adapter_vars>>
    /\ UNCHANGED <<call, filtered_journeys, shapley_values,
                   marginal_count, samples, conversion_rate_cache, hybrid,
                   computed, drawn, previous>>

\* the sampling loop is over: calculate_shapley_values returns to
\* HybridAttribution.calculate_attribution, which blends and returns
Blend ==
    /\ pc = "sampling"
    /\ samples = NumSamples(filtered_journeys, call.max_iterations)
    /\ ~(call.name = "run_analysis" /\ SelectModel(call.alpha) = "shapley")
    /\ LET values == ShapleyValues(filtered_journeys, shapley_values,
                                   marginal_count)
       IN  /\ shapley_result' = values
           /\ hybrid' = HybridBlend(ExtractChannels(filtered_journeys),
                  call.alpha,
                  CalculateAttribution(filtered_journeys).attributions, values)
    /\ pc' = "blended"
    /\ UNCHANGED <<journeys, engine_hybrid, left_hybrid, threads, adapter_vars>>
    /\ UNCHANGED <<call, filtered_journeys, shapley_values,
                   marginal_count, samples, conversion_rate_cache, result,
                   computed, drawn, previous>>

\* the cache after the sampling loop has walked every permutation of the
\* set `permutations`
RECURSIVE CacheAfterSampling(_, _, _)
CacheAfterSampling(js, permutations, cache) ==
    IF permutations = {} THEN cache
    ELSE LET p == CHOOSE p \in permutations : TRUE IN
         CacheAfterSampling(js, permutations \ {p},
            WalkPermutation(js, p, 1, {},
                [shapley_values |-> [c \in ExtractChannels(js) |-> Zero],
                 marginal_count |-> [c \in ExtractChannels(js) |-> 0],
                 cache |-> cache,
                 computed |-> EmptyDict]).cache)

\* the computation counts after the same walk
RECURSIVE ComputedAfterSampling(_, _, _, _)
ComputedAfterSampling(js, permutations, cache, counts) ==
    IF permutations = {} THEN counts
    ELSE LET p == CHOOSE p \in permutations : TRUE
             acc == WalkPermutation(js, p, 1, {},
                        [shapley_values |-> [c \in ExtractChannels(js) |-> Zero],
                         marginal_count |-> [c \in ExtractChannels(js) |-> 0],
                         cache |-> cache,
                         computed |-> counts])
         IN  ComputedAfterSampling(js, permutations \ {p}, acc.cache,
                                   acc.computed)

\* the sets of distinct permutations a sampling loop of n iterations can draw
DrawnSets(shuffles, n) ==
    {d \in SUBSET shuffles :
        Cardinality(d) <= n /\ (n > 0 /\ shuffles # {} => d # {})}

\* The rest of HybridAttribution.get_full_result: calculate_attribution and
\* calculate_shapley_values are called once more (lines 354-355) and their
\* values dropped, so of the second sampling loop only its writes to the
\* cache remain.  A cached rate is a function of the journeys alone, so the
\* cache the loop leaves depends only on the set of permutations it
\* drew.  Then the result is built, and run_analysis returns it.
FinishHybrid(permutations) ==
    /\ pc = "blended"
    /\ conversion_rate_cache' =
            CacheAfterSampling(filtered_journeys, permutations,
                               conversion_rate_cache)
    /\ computed' =
            ComputedAfterSampling(filtered_journeys, permutations,
                                  conversion_rate_cache, computed)
    /\ LET hr == HybridFullResult(ExtractChannels(filtered_journeys),
                                  call.alpha, hybrid)
       IN  result' = IF call.name = "run_analysis"
                     THEN AnalysisResult(filtered_journeys,
                              call.filter_channels, NoResult, NoResult, hr)
                     ELSE [status |-> "success", hybrid_result |-> hr]
    /\ pc' = "returned"
    /\ UNCHANGED <<journeys, engine_hybrid, left_hybrid, threads, adapter_vars>>
    /\ UNCHANGED <<call, filtered_journeys, shapley_values,
                   marginal_count, samples, shapley_result, hybrid, drawn,
                   previous>>

\* the caller takes the outcome; the engine and the models built for the
\* call are dropped
Return ==
    /\ pc \in {"returned", "raised"}
    /\ pc' = "idle"
    /\ call' = NoCall
    /\ filtered_journeys' = <<>>
    /\ shapley_values' = EmptyDict
    /\ marginal_count' = EmptyDict
    /\ samples' = 0
    /\ conversion_rate_cache' = EmptyDict
    /\ shapley_result' = EmptyDict
    /\ hybrid' = EmptyDict
    /\ result' = NoOutcome
    /\ computed' = EmptyDict
    /\ drawn' = <<>>
    /\ previous' = NoPrevious
    /\ engine_hybrid' = None
    /\ UNCHANGED <<journeys, left_hybrid, threads, adapter_vars>>

\* the shuffles of the channel list of the call in progress
Shuffles == ShuffleOutcomes(ExtractChannels(filtered_journeys))

Next ==
    \/ \E alpha \in Alphas \cup OutOfRangeAlphas, fc \in FilterInputs :
          RunAnalysis(alpha, fc)
    \/ \E alpha \in Alphas : HybridCall(alpha)
    \/ \E p \in Shuffles : Sample(p)
    \/ FinishShapley
    \/ Blend
    \/ \E permutations \in DrawnSets(Shuffles,
            NumSamples(filtered_journeys, call.max_iterations)) :
          FinishHybrid(permutations)
    \/ Return

Spec == Init /\ [][Next]_vars

\* ------------------------------------- a ShapleyAttribution a caller holds
\* the values of max_iterations callers construct a ShapleyAttribution with
MaxIterationsInputs == {-1, 0, 1, 2}

\* ShapleyAttribution(journeys, max_iterations).calculate_shapley_values(),
\* up to the first shuffle
ShapleyCall(max_iterations) ==
    /\ pc = "idle"
    /\ call' = [name |-> "shapley", alpha |-> One,
                filter_channels |-> NoFilter,
                max_iterations |-> max_iterations]
    /\ filtered_journeys' = journeys
    /\ StartSampling(journeys)
    /\ UNCHANGED <<journeys, engine_hybrid, left_hybrid, threads, adapter_vars>>
    /\ UNCHANGED <<shapley_result, hybrid>>

\* the sampling loop is over: calculate_shapley_values returns the
\* normalized values to the caller of the instance
FinishCalculate ==
    /\ pc = "sampling"
    /\ samples = NumSamples(filtered_journeys, call.max_iterations)
    /\ call.name = "shapley"
    /\ LET values == ShapleyValues(filtered_journeys, shapley_values,
                                   marginal_count)
       IN  /\ shapley_result' = values
           /\ result' = [status |-> "success", channel_values |-> values]
    /\ pc' = "returned"
    /\ UNCHANGED <<journeys, engine_hybrid, left_hybrid, threads, adapter_vars>>
    /\ UNCHANGED <<call, filtered_journeys, shapley_values,
                   marginal_count, samples, conversion_rate_cache, hybrid,
                   computed, drawn, previous>>

\* calculate_shapley_values() once more on the same instance: its locals
\* start afresh, self.conversion_rate_cache is what the run before left
Recalculate ==
    /\ pc = "returned"
    /\ call.name = "shapley"
    /\ pc' = "sampling"
    /\ shapley_values' = [c \in ExtractChannels(filtered_journeys) |-> Zero]
    /\ marginal_count' = [c \in ExtractChannels(filtered_journeys) |-> 0]
    /\ samples' = 0
    /\ result' = NoOutcome
    /\ previous' = [ran |-> TRUE, drawn |-> drawn,
                    channel_values |-> shapley_result]
    /\ drawn' = <<>>
    /\ UNCHANGED <<journeys, engine_hybrid, left_hybrid, threads, adapter_vars>>
    /\ UNCHANGED <<call, filtered_journeys, conversion_rate_cache,
                   shapley_result, hybrid, computed>>

NextShapley ==
    \/ \E max_iterations \in MaxIterationsInputs : ShapleyCall(max_iterations)
    \/ \E p \in Shuffles : Sample(p)
    \/ FinishCalculate
    \/ Recalculate
    \/ Return

\* callers that build a ShapleyAttribution themselves and keep it
SpecShapley == Init /\ [][NextShapley]_vars

\* The toy data set of the specification's section 8: paths [A,B], [B],
\* [A,B] with conversions [true, false, true].
ToyJourneys ==
    <<[path |-> <<"A", "B">>, conversion |-> TRUE],
      [path |-> <<"B">>, conversion |-> FALSE],
      [path |-> <<"A", "B">>, conversion |-> TRUE]>>

InitToy == journeys = ToyJourneys /\ InitCall

\* the engine built on the toy data set
SpecToy == InitToy /\ [][Next]_vars

\* ------------------------------- two threads calling one AttributionEngine
\* The steps of run_analysis that touch the engine are the store of
\* self.hybrid (lines 420, 425, 430) and, in the hybrid branch, the load of
\* self.hybrid whose get_full_result() is called (line 433); everything
\* else works on locals.  A thread can be preempted between any two of them.

\* the sampling loop of calculate_shapley_values over seq[k..]
RECURSIVE SampleAll(_, _, _, _)
SampleAll(js, seq, k, acc) ==
    IF k > Len(seq) THEN acc
    ELSE SampleAll(js, seq, k + 1, WalkPermutation(js, seq[k], 1, {}, acc))

\* the sequences of permutations one run of the sampling loop can draw
SampleSequences(js) ==
    [1..NumSamples(js, DefaultMaxIterations) ->
        ShuffleOutcomes(ExtractChannels(js))]

\* calculate_shapley_values() of a fresh ShapleyAttribution(js) drawing seq
SampledValues(js, seq) ==
    LET acc == SampleAll(js, seq, 1,
                   [shapley_values |-> [c \in ExtractChannels(js) |-> Zero],
                    marginal_count |-> [c \in ExtractChannels(js) |-> 0],
                    cache |-> EmptyDict,
                    computed |-> EmptyDict])
    IN  ShapleyValues(js, acc.shapley_values, acc.marginal_count)

AttributeError == [status |-> "AttributeError"]

\* instance.get_full_result() for the object a thread loaded from
\* self.hybrid, its first sampling loop drawing seq
LoadedHybridResult(instance, seq) ==
    IF instance = None THEN AttributeError
    ELSE LET m == CalculateAttribution(instance.journeys)
             channels == ExtractChannels(instance.journeys)
         IN  IF m.raised THEN Raised
             ELSE HybridFullResult(channels, instance.alpha,
                      HybridBlend(channels, instance.alpha, m.attributions,
                                  SampledValues(instance.journeys, seq)))

\* what run_analysis(alpha) hands back when its model is run on `instance`
\* (hybrid branch) or on its own locals, the sampling loop drawing seq
AnalysisOutcome(js, alpha, instance, seq) ==
    IF SelectModel(alpha) = "markov"
    THEN LET m == CalculateAttribution(js) IN
         IF m.raised THEN Raised
         ELSE AnalysisResult(js, NoFilter, MarkovFullResult(js, m),
                             NoResult, NoResult)
    ELSE IF SelectModel(alpha) = "shapley"
    THEN AnalysisResult(js, NoFilter, NoResult,
             ShapleyFullResult(js, SampledValues(js, seq),
                               DefaultMaxIterations),
             NoResult)
    ELSE LET hr == LoadedHybridResult(instance, seq) IN
         IF hr \in {AttributeError, Raised} THEN hr
         ELSE AnalysisResult(js, NoFilter, NoResult, NoResult, hr)

\* thread t enters run_analysis(alpha): lines 409-417, all on locals
CallAnalysis(t, alpha) ==
    /\ threads[t].pc = "idle"
    /\ threads' = [threads EXCEPT ![t] =
                      [pc |-> "selected", alpha |-> alpha,
                       outcome |-> NoOutcome]]
    /\ UNCHANGED <<journeys, call_vars, engine_hybrid, left_hybrid,
                   adapter_vars>>

\* lines 420, 425, 430: the assignment to self.hybrid
StoreHybrid(t) ==
    /\ threads[t].pc = "selected"
    /\ engine_hybrid' =
            IF SelectModel(threads[t].alpha) = "hybrid"
            THEN HybridInstance(journeys, threads[t].alpha)
            ELSE None
    /\ threads' = [threads EXCEPT ![t].pc = "stored"]
    /\ UNCHANGED <<journeys, call_vars, left_hybrid, adapter_vars>>

\* lines 421-427 or 433, and the rest of run_analysis: the model is run (in
\* the hybrid branch on whatever self.hybrid holds now) and the result
\* dict is built
RunModel(t, seq) ==
    /\ threads[t].pc = "stored"
    /\ LET outcome == AnalysisOutcome(journeys, threads[t].alpha,
                                      engine_hybrid, seq)
       IN  threads' = [threads EXCEPT ![t] =
                [pc |-> IF outcome \in {AttributeError, Raised}
                        THEN "raised" ELSE "returned",
                 alpha |-> threads[t].alpha,
                 outcome |-> outcome]]
    /\ UNCHANGED <<journeys, call_vars, engine_hybrid, left_hybrid,
                   adapter_vars>>

\* the caller of thread t takes the outcome
TakeOutcome(t) ==
    /\ threads[t].pc \in {"returned", "raised"}
    /\ threads' = [threads EXCEPT ![t] = IdleThread]
    /\ UNCHANGED <<journeys, call_vars, engine_hybrid, left_hybrid,
                   adapter_vars>>

NextConcurrent ==
    \/ \E t \in Threads, alpha \in Alphas : CallAnalysis(t, alpha)
    \/ \E t \in Threads : StoreHybrid(t)
    \/ \E t \in Threads, seq \in SampleSequences(journeys) : RunModel(t, seq)
    \/ \E t \in Threads : TakeOutcome(t)

\* two threads sharing the engine built on the toy data set
SpecConcurrent == InitToy /\ [][NextConcurrent]_vars

\* ------------------------ one caller keeping one AttributionEngine
\* mcp_server keeps its AttributionEngine between requests: self.hybrid
\* still holds what the call before stored in it when the next call begins.

\* self.hybrid assigned only while it is still None
StoredHybridOnce(held, fj, alpha) ==
    IF SelectModel(alpha) # "hybrid" THEN None
    ELSE IF held # None THEN held
    ELSE HybridInstance(fj, alpha)

\* lines 420, 425, 430: what the call stores in self.hybrid, which held
\* `held` before
StoredHybrid(held, fj, alpha) ==
    IF SelectModel(alpha) = "hybrid" THEN HybridInstance(fj, alpha) ELSE None

\* the sequences of permutations the model selected by alpha draws
DrawnSequences(fj, alpha) ==
    IF SelectModel(alpha) = "markov" THEN {<<>>} ELSE SampleSequences(fj)

\* lines 419-471 for filtered journeys fj: the model is run (in the hybrid
\* branch on the object self.hybrid holds), drawing seq, and the result
\* dict is built
EngineOutcome(fj, alpha, fc, instance, seq) ==
    IF SelectModel(alpha) = "markov"
    THEN LET m == CalculateAttribution(fj) IN
         IF m.raised THEN Raised
         ELSE AnalysisResult(fj, fc, MarkovFullResult(fj, m),
                             NoResult, NoResult)
    ELSE IF SelectModel(alpha) = "shapley"
    THEN AnalysisResult(fj, fc, NoResult,
             ShapleyFullResult(fj, SampledValues(fj, seq),
                               DefaultMaxIterations),
             NoResult)
    ELSE LET hr == LoadedHybridResult(instance, seq) IN
         IF hr \in {AttributeError, Raised} THEN hr
         ELSE AnalysisResult(fj, fc, NoResult, NoResult, hr)

\* the values of alpha passed to the engine kept: the three of Alphas and a
\* second hybrid weight, so that two hybrid calls can differ in alpha
KeptAlphas == Alphas \cup {Rat(1, 4)}

\* run_analysis(alpha, filter_channels=fc) on the engine kept: lines 409-430,
\* up to the store of self.hybrid
EngineCall(alpha, fc) ==
    /\ pc = "idle"
    /\ pc' = "stored"
    /\ call' = [name |-> "run_analysis", alpha |-> alpha,
                filter_channels |-> fc, max_iterations |-> DefaultMaxIterations]
    /\ filtered_journeys' = FilterJourneys(journeys, fc)
    /\ left_hybrid' = engine_hybrid
    /\ engine_hybrid' =
            StoredHybrid(engine_hybrid, FilterJourneys(journeys, fc), alpha)
    /\ UNCHANGED <<journeys, threads, adapter_vars>>
    /\ UNCHANGED <<shapley_values, marginal_count, samples,
                   conversion_rate_cache, shapley_result, hybrid, result,
                   computed, drawn, previous>>

\* the rest of the call: the model runs, drawing seq, and the call returns
EngineRun(seq) ==
    /\ pc = "stored"
    /\ LET outcome == EngineOutcome(filtered_journeys, call.alpha,
                          call.filter_channels, engine_hybrid, seq)
       IN  /\ result' = outcome
           /\ pc' = IF outcome \in {AttributeError, Raised} THEN "raised"
                    ELSE "returned"
    /\ drawn' = seq
    /\ UNCHANGED <<journeys, engine_hybrid, left_hybrid, threads, adapter_vars>>
    /\ UNCHANGED <<call, filtered_journeys, shapley_values, marginal_count,
                   samples, conversion_rate_cache, shapley_result, hybrid,
                   computed, previous>>

\* the caller takes the outcome and keeps the engine
EngineDone ==
    /\ pc \in {"returned", "raised"}
    /\ pc' = "idle"
    /\ call' = NoCall
    /\ filtered_journeys' = <<>>
    /\ result' = NoOutcome
    /\ drawn' = <<>>
    /\ UNCHANGED <<journeys, engine_hybrid, left_hybrid, threads, adapter_vars>>
    /\ UNCHANGED <<shapley_values, marginal_count, samples,
                   conversion_rate_cache, shapley_result, hybrid, computed,
                   previous>>

\* (the inputs of a new call are enumerated only where one can start)
NextEngine ==
    \/ /\ pc = "idle"
       /\ \E alpha \in KeptAlphas, fc \in FilterInputs :
             EngineCall(alpha, fc)
    \/ /\ pc = "stored"
       /\ \E seq \in DrawnSequences(filtered_journeys, call.alpha) :
             EngineRun(seq)
    \/ EngineDone

\* a caller making one run_analysis call after another on one engine
InitEngine ==
    /\ journeys \in {js \in JourneyLists : Len(js) <= MaxKeptJourneys}
    /\ InitCall

SpecEngine == InitEngine /\ [][NextEngine]_vars

\* ------------------------------------ api.router.compute_uncertainty
\* raise HTTPException(status_code=code, ...)
HTTPException(code) == [status |-> "HTTPException", status_code |-> code]

\* sum(len(j.path) for j in request.journeys)
RECURSIVE TotalTouchpoints(_, _)
TotalTouchpoints(js, i) ==
    IF i > Len(js) THEN 0
    ELSE Len(js[i].path) + TotalTouchpoints(js, i + 1)

\* lines 314-319: the payload built from the result dict r of run_analysis.
\* r has the keys 'markov_result' and 'hybrid_result' whatever the model, so
\* r.get(key, {}) returns the value stored, None for a model that was not
\* run, and None.get(...) raises AttributeError.
UncertaintyResults(js, r) ==
    IF ~r.markov_result.populated THEN AttributeError
    ELSE IF ~r.hybrid_result.populated THEN AttributeError
    ELSE [status |-> "ok",
          markov_ci |-> r.markov_result.confidence_interval,
          hybrid_ci |-> r.hybrid_result.confidence_intervals,
          total_journeys |-> Len(js),
          total_touchpoints |-> TotalTouchpoints(js, 1)]

\* what compute_uncertainty answers to a request (js, alpha, fc), the
\* engine it builds drawing seq: lines 302-323
UncertaintyResponse(js, alpha, fc, seq) ==
    IF Len(js) = 0 THEN HTTPException(400)
    ELSE LET fj == FilterJourneys(js, fc)
             r == EngineOutcome(fj, alpha, fc, StoredHybrid(None, fj, alpha),
                                seq)
         IN  IF r \in {Raised, AttributeError} THEN HTTPException(500)
             ELSE IF UncertaintyResults(js, r) = AttributeError
             THEN HTTPException(500)
             ELSE UncertaintyResults(js, r)

\* POST /uncertainty with an AttributionRequest (alpha validated to [0, 1])
ComputeUncertainty(alpha, fc, seq) ==
    /\ pc = "idle"
    /\ call' = [name |-> "compute_uncertainty", alpha |-> alpha,
                filter_channels |-> fc, max_iterations |-> DefaultMaxIterations]
    /\ filtered_journeys' = FilterJourneys(journeys, fc)
    /\ result' = UncertaintyResponse(journeys, alpha, fc, seq)
    /\ pc' = IF UncertaintyResponse(journeys, alpha, fc, seq).status = "ok"
             THEN "returned" ELSE "raised"
    /\ UNCHANGED <<journeys, engine_hybrid, left_hybrid, threads, adapter_vars>>
    /\ UNCHANGED <<shapley_values, marginal_count, samples,
                   conversion_rate_cache, shapley_result, hybrid, computed,
                   drawn, previous>>

\* the response is sent
Respond ==
    /\ pc \in {"returned", "raised"}
    /\ pc' = "idle"
    /\ call' = NoCall
    /\ filtered_journeys' = <<>>
    /\ result' = NoOutcome
    /\ UNCHANGED <<journeys, engine_hybrid, left_hybrid, threads, adapter_vars>>
    /\ UNCHANGED <<shapley_values, marginal_count, samples,
                   conversion_rate_cache, shapley_result, hybrid, computed,
                   drawn, previous>>

\* (the inputs of a new request are enumerated only where one can start)
NextRouter ==
    \/ /\ pc = "idle"
       /\ \E alpha \in Alphas, fc \in FilterInputs :
            \E seq \in DrawnSequences(FilterJourneys(journeys, fc), alpha) :
                ComputeUncertainty(alpha, fc, seq)
    \/ Respond

\* requests to the uncertainty operation
SpecRouter == Init /\ [][NextRouter]_vars

\* -------------------------------- callers of adapters.channel_taxonomy
\* the most ChannelTaxonomy instances a caller keeps
MaxTaxonomies == 2

\* the identity of the next dict object created
NextObject(h) == Len(h) + 1

\* ChannelTaxonomy.__init__: self.mappings.  CHANNEL_MAPPINGS.copy() is a
\* new outer dict holding the same inner dicts; a new source is bound to
\* the caller's dict, a new object.
MappingsAfterInit(h, custom) ==
    IF ~custom.given THEN ChannelMappings
    ELSE IF custom.source \in DOMAIN ChannelMappings
    THEN ChannelMappings
    ELSE [s \in DOMAIN ChannelMappings \cup {custom.source} |->
            IF s = custom.source THEN NextObject(h) ELSE ChannelMappings[s]]

\* ChannelTaxonomy.__init__: the dict objects afterwards.  For a source of
\* CHANNEL_MAPPINGS, self.mappings[source].update(mapping) updates the
\* inner dict that self.mappings shares with CHANNEL_MAPPINGS.
HeapAfterInit(h, custom) ==
    IF ~custom.given THEN h
    ELSE IF custom.source \in DOMAIN ChannelMappings
    THEN [h EXCEPT ![ChannelMappings[custom.source]] =
                Update(@, custom.mapping)]
    ELSE Append(h, custom.mapping)

\* ChannelTaxonomy.normalize(raw_channel, source) on an instance whose
\* self.mappings is `mappings`, the dict objects being h
Normalize(h, mappings, raw_channel, source) ==
    LET raw_lower == Lower(raw_channel) IN
    IF raw_channel = "" THEN "Unknown"
    ELSE IF source \in DOMAIN mappings
            /\ raw_lower \in DOMAIN h[mappings[source]]
    THEN h[mappings[source]][raw_lower]
    ELSE IF raw_lower \in DOMAIN h[mappings["ga"]]
    THEN h[mappings["ga"]][raw_lower]
    ELSE IF FuzzyMatch(raw_lower) # "None" THEN FuzzyMatch(raw_lower)
    ELSE "Unknown"

\* taxonomy = ChannelTaxonomy(custom_mappings), kept by the caller
Construct(custom) ==
    /\ Len(taxonomies) < MaxTaxonomies
    /\ heap' = HeapAfterInit(heap, custom)
    /\ taxonomies' = Append(taxonomies,
            [custom |-> custom, mappings |-> MappingsAfterInit(heap, custom)])
    /\ normalized' = NotNormalized
    /\ UNCHANGED <<journeys, call_vars, engine_hybrid, left_hybrid, threads,
                   merge_vars>>

\* taxonomies[i].normalize(raw_channel, source)
NormalizeOn(i, raw_channel, source) ==
    /\ normalized' = [status |-> "done", instance |-> i,
                      raw_channel |-> raw_channel, source |-> source,
                      value |-> Normalize(heap, taxonomies[i].mappings,
                                          raw_channel, source)]
    /\ UNCHANGED <<heap, taxonomies>>
    /\ UNCHANGED <<journeys, call_vars, engine_hybrid, left_hybrid, threads,
                   merge_vars>>

\* normalize_channel(raw_channel, source): a ChannelTaxonomy() built for the
\* call (instance 0)
NormalizeChannel(raw_channel, source) ==
    /\ normalized' = [status |-> "done", instance |-> 0,
                      raw_channel |-> raw_channel, source |-> source,
                      value |-> Normalize(HeapAfterInit(heap, NoMappings),
                                    MappingsAfterInit(heap, NoMappings),
                                    raw_channel, source)]
    /\ UNCHANGED <<heap, taxonomies>>
    /\ UNCHANGED <<journeys, call_vars, engine_hybrid, left_hybrid, threads,
                   merge_vars>>

NextTaxonomy ==
    \/ \E custom \in CustomMappings : Construct(custom)
    \/ \E i \in 1..Len(taxonomies), raw_channel \in RawChannels,
          source \in SourceNames : NormalizeOn(i, raw_channel, source)
    \/ \E raw_channel \in RawChannels, source \in SourceNames :
          NormalizeChannel(raw_channel, source)

InitTaxonomy == journeys = <<>> /\ InitCall

\* callers constructing taxonomies and normalizing channel names
SpecTaxonomy == InitTaxonomy /\ [][NextTaxonomy]_vars

\* ------------------------------------------- adapters.merge_event_streams
\* UniversalEvent: the four key fields and one field outside the key.
\* Timestamps are ISO8601 strings of one format, compared as strings; the
\* numbers stand for two of them in that order.
EventValues ==
    [timestamp : {1, 2}, user_id : {"user1"}, channel : {"Search", "Email"},
     event_type : {"pageview"}, conversion_value : {0, 1}]

\* the argument lists callers pass: two streams, the second short
EventListInputs ==
    {<<first, second>> :
        first \in UNION {[1..n -> EventValues] : n \in 0..MaxEvents},
        second \in UNION {[1..n -> EventValues] : n \in 0..1}}

\* lines 480-481: merged.extend(events) for each argument, from argument k on
RECURSIVE Extend(_, _)
Extend(event_lists, k) ==
    IF k > Len(event_lists) THEN <<>>
    ELSE event_lists[k] \o Extend(event_lists, k + 1)

\* a key that leaves the channel out
KeyWithoutChannel(e) == <<e.timestamp, e.user_id, e.event_type>>

\* line 488
Key(e) == <<e.timestamp, e.user_id, e.channel, e.event_type>>

\* lines 484-492: the loop over merged[i..]
RECURSIVE Deduplicate(_, _, _, _)
Deduplicate(list, i, seen, unique) ==
    IF i > Len(list) THEN unique
    ELSE IF Key(list[i]) \in seen
    THEN Deduplicate(list, i + 1, seen, unique)
    ELSE Deduplicate(list, i + 1, seen \cup {Key(list[i])},
                     Append(unique, list[i]))

\* e put into a list sorted by timestamp, behind the events that are not later
InsertByTime(sorted, e) ==
    LET before == SelectSeq(sorted, LAMBDA x : x.timestamp <= e.timestamp)
        after == SelectSeq(sorted, LAMBDA x : x.timestamp > e.timestamp)
    IN  before \o <<e>> \o after

\* line 495: list.sort(key=timestamp), a stable sort, of list[1..n]
RECURSIVE SortByTime(_, _)
SortByTime(list, n) ==
    IF n = 0 THEN <<>>
    ELSE InsertByTime(SortByTime(list, n - 1), list[n])

\* merge_event_streams(*event_lists, sort_by_time, deduplicate)
Merge(event_lists, sort_by_time, deduplicate) ==
    LET all == Extend(event_lists, 1)
        unique == IF deduplicate THEN Deduplicate(all, 1, {}, <<>>) ELSE all
    IN  IF sort_by_time THEN SortByTime(unique, Len(unique)) ELSE unique

\* a caller merges two streams
MergeEventStreams(event_lists, sort_by_time, deduplicate) ==
    /\ merge_call.pc = "idle"
    /\ merge_call' = [pc |-> "returned", event_lists |-> event_lists,
                      sort_by_time |-> sort_by_time,
                      deduplicate |-> deduplicate]
    /\ merged' = Merge(event_lists, sort_by_time, deduplicate)
    /\ merged_before' = <<>>
    /\ UNCHANGED <<journeys, call_vars, engine_hybrid, left_hybrid, threads,
                   taxonomy_vars>>

\* the caller merges the list it got, with the same flags, with itself
\* (k = 0) or with the k-th stream it had passed
MergeAgain(k) ==
    /\ merge_call.pc = "returned"
    /\ k \in 0..Len(merge_call.event_lists)
    /\ LET other == IF k = 0 THEN merged ELSE merge_call.event_lists[k] IN
       /\ merge_call' = [merge_call EXCEPT !.pc = "remerged",
                                           !.event_lists = <<merged, other>>]
       /\ merged' = Merge(<<merged, other>>, merge_call.sort_by_time,
                          merge_call.deduplicate)
    /\ merged_before' = merged
    /\ UNCHANGED <<journeys, call_vars, engine_hybrid, left_hybrid, threads,
                   taxonomy_vars>>

\* the caller is done with the lists
MergeDone ==
    /\ merge_call.pc \in {"returned", "remerged"}
    /\ merge_call' = NoMerge
    /\ merged' = <<>>
    /\ merged_before' = <<>>
    /\ UNCHANGED <<journeys, call_vars, engine_hybrid, left_hybrid, threads,
                   taxonomy_vars>>

\* (the inputs of a new call are enumerated only where one can start)
NextMerge ==
    \/ /\ merge_call.pc = "idle"
       /\ \E event_lists \in EventListInputs, sort_by_time \in BOOLEAN,
             deduplicate \in BOOLEAN :
             MergeEventStreams(event_lists, sort_by_time, deduplicate)
    \/ \E k \in 0..2 : MergeAgain(k)
    \/ MergeDone

InitMerge == journeys = <<>> /\ InitCall

\* callers of merge_event_streams
SpecMerge == InitMerge /\ [][NextMerge]_vars

\* ------------------------------------------------------------------ claims
\* run_analysis has returned its result dict
AnalysisReturned == pc = "returned" /\ call.name = "run_analysis"

\* every value of dict d is >= 0
NonNegative(d) == \A c \in DOMAIN d : RLeq(Zero, d[c])

\* C1: for a non-empty journey list whose total removal effect (the sum of
\* the clamped removal effects) is > 0, the Markov channel_attributions
\* returned sum to 1.
C1_MarkovSharesSumToOne ==
    (/\ AnalysisReturned
     /\ result.markov_result.populated
     /\ Len(filtered_journeys) > 0
     /\ RLt(Zero, SumValues(result.markov_result.removal_effects)))
    => SumValues(result.markov_result.channel_attributions) = One

\* the HybridResult of the call that returned, from either entry point
HybridReturned ==
    /\ pc = "returned"
    /\ result.hybrid_result.populated

\* C2: for any alpha and any journey list with a non-empty channel set, the
\* hybrid channel_attributions produced sum to 1.
C2_HybridSharesSumToOne ==
    (HybridReturned /\ ExtractChannels(filtered_journeys) # {})
    => SumValues(result.hybrid_result.channel_attributions) = One

\* calculate_shapley_values has returned in the call in progress
ShapleyComputed ==
    /\ pc \in {"blended", "returned"}
    /\ call.name = "hybrid" \/ SelectModel(call.alpha) # "markov"
    /\ result # Raised

\* the pre-normalization Shapley values of the call in progress
RawValues == RawShapleyValues(shapley_values, marginal_count)

\* C3: for a non-empty channel set and any sequence of sampled permutations,
\* the normalized Shapley channel_values sum to 1 whenever the raw sum of
\* the Shapley values is > 0; the ShapleyResult returned carries them.
C3_ShapleyValuesSumToOne ==
    (/\ ShapleyComputed
     /\ ExtractChannels(filtered_journeys) # {}
     /\ RLt(Zero, SumValues(RawValues)))
    => /\ DOMAIN shapley_result = ExtractChannels(filtered_journeys)
       /\ SumValues(shapley_result) = One
       /\ (AnalysisReturned /\ result.shapley_result.populated
            => result.shapley_result.channel_values = shapley_result)

\* C3 witness: a Shapley-only analysis over two channels returned values
\* that are not uniform, from a positive raw sum.
C3_Witness ==
    /\ AnalysisReturned
    /\ result.shapley_result.populated
    /\ Cardinality(ExtractChannels(filtered_journeys)) = 2
    /\ RLt(Zero, SumValues(RawValues))
    /\ RawValues # shapley_result
    /\ \E c \in DOMAIN shapley_result : shapley_result[c] # Rat(1, 2)

\* the channel-keyed attribution mapping of the model that was populated
PopulatedMapping ==
    IF result.markov_result.populated
    THEN result.markov_result.channel_attributions
    ELSE IF result.shapley_result.populated
    THEN result.shapley_result.channel_values
    ELSE result.hybrid_result.channel_attributions

\* C4: whenever run_analysis returns (alpha in [0,1]), every value of the
\* populated channel-keyed attribution mapping is non-negative.
C4_AttributionsNonNegative ==
    (AnalysisReturned /\ RLeq(Zero, call.alpha) /\ RLeq(call.alpha, One))
    => NonNegative(PopulatedMapping)

\* C5: on the toy data set the Markov attributions of A and B are each in
\* [0,1] and sum to 1, and B's removal effect is >= A's.
C5_ToyMarkov ==
    (/\ AnalysisReturned
     /\ journeys = ToyJourneys
     /\ call.filter_channels = NoFilter
     /\ result.markov_result.populated)
    => LET attr == result.markov_result.channel_attributions
           effects == result.markov_result.removal_effects
       IN  /\ DOMAIN attr = {"A", "B"}
           /\ \A c \in {"A", "B"} : RLeq(Zero, attr[c]) /\ RLeq(attr[c], One)
           /\ RAdd(attr["A"], attr["B"]) = One
           /\ RLeq(effects["A"], effects["B"])

\* C6: HybridAttribution at alpha = 0 yields exactly the Markov shares of
\* MarkovAttribution on the same journeys, and at alpha = 1 exactly the
\* Shapley channel_values of the same sampled permutations.
C6_HybridEndpoints ==
    (pc = "returned" /\ call.name = "hybrid" /\ result.hybrid_result.populated)
    => /\ call.alpha = Zero
            => result.hybrid_result.channel_attributions
               = CalculateAttribution(filtered_journeys).attributions
       /\ call.alpha = One
            => result.hybrid_result.channel_attributions = shapley_result

\* C7: when run_analysis(alpha) returns, exactly one of markov_result,
\* shapley_result, hybrid_result is non-null: markov_result iff alpha = 0,
\* shapley_result iff alpha = 1, hybrid_result iff alpha is neither.
C7_ExactlyOneModel ==
    AnalysisReturned
    => /\ result.markov_result.populated <=> call.alpha = Zero
       /\ result.shapley_result.populated <=> call.alpha = One
       /\ result.hybrid_result.populated <=> call.alpha \notin {Zero, One}
       /\ Cardinality({m \in {"markov", "shapley", "hybrid"} :
              \/ m = "markov" /\ result.markov_result.populated
              \/ m = "shapley" /\ result.shapley_result.populated
              \/ m = "hybrid" /\ result.hybrid_result.populated}) = 1

\* C7 witness: run_analysis returned for an alpha strictly between 0 and 1
\* on journeys with channels, with only hybrid_result populated.
C7_Witness ==
    /\ AnalysisReturned
    /\ RLt(Zero, call.alpha) /\ RLt(call.alpha, One)
    /\ ExtractChannels(filtered_journeys) # {}
    /\ result.hybrid_result.populated
    /\ ~result.markov_result.populated

\* the names of the filter of the call in progress
F == FilterSet(call.filter_channels)

\* journey j has a touchpoint whose channel is in the filter
TouchesFilter(j) == \E k \in 1..Len(j.path) : j.path[k] \in F

\* C8: with a non-empty filter F, total_journeys counts exactly the input
\* journeys with at least one touchpoint in F, and the reported channel
\* universe (keys of channels_summary, channels of channel_metrics,
\* unique_channels) lies inside F intersected with the original channels.
C8_FilterChannels ==
    (AnalysisReturned /\ call.filter_channels.given /\ F # {})
    => /\ result.total_journeys
            = Cardinality({i \in 1..Len(journeys) : TouchesFilter(journeys[i])})
       /\ DOMAIN result.channels_summary \subseteq F \cap ExtractChannels(journeys)
       /\ DOMAIN result.channel_metrics \subseteq F \cap ExtractChannels(journeys)
       /\ result.unique_channels = Cardinality(DOMAIN result.channels_summary)

\* C8 witness: a filtered analysis returned that kept a journey only partly
\* inside the filter and dropped a journey with no touchpoint in it.
C8_Witness ==
    /\ AnalysisReturned
    /\ call.filter_channels.given /\ F # {}
    /\ \E i \in 1..Len(journeys) :
          /\ TouchesFilter(journeys[i])
          /\ \E k \in 1..Len(journeys[i].path) : journeys[i].path[k] \notin F
    /\ \E i \in 1..Len(journeys) :
          Len(journeys[i].path) > 0 /\ ~TouchesFilter(journeys[i])
    /\ result.total_journeys = 1
    /\ result.unique_channels = 1

\* C9: on an empty journey list run_analysis does not raise, for any alpha,
\* and returns total_journeys = 0, total_conversions = 0,
\* unique_channels = 0 and an empty attribution mapping.
C9_EmptyJourneys ==
    (Len(journeys) = 0 /\ call.name = "run_analysis")
    => /\ pc # "raised"
       /\ pc = "returned"
            => /\ result.status = "success"
               /\ result.total_journeys = 0
               /\ result.total_conversions = 0
               /\ result.unique_channels = 0
               /\ DOMAIN PopulatedMapping = {}

\* C9 witness: run_analysis returned on the empty journey list.
C9_Witness ==
    /\ AnalysisReturned
    /\ Len(journeys) = 0
    /\ result.hybrid_result.populated

\* C10: on a non-empty journey list in which no journey converted, the
\* Markov computation (run_analysis for every alpha other than 1) raises no
\* division error and reports removal effect 0 for every channel.
C10_ZeroConversions ==
    (/\ call.name = "run_analysis"
     /\ call.alpha # One
     /\ Len(filtered_journeys) > 0
     /\ CountConversions(filtered_journeys) = 0)
    => /\ pc # "raised"
       /\ (pc = "returned" /\ result.markov_result.populated)
            => /\ DOMAIN result.markov_result.removal_effects
                    = ExtractChannels(filtered_journeys)
               /\ \A c \in ExtractChannels(filtered_journeys) :
                    result.markov_result.removal_effects[c] = Zero

\* C11: run_analysis called with alpha < 0 or alpha > 1 fails with a
\* validation error raised before any model computation starts: it never
\* starts sampling, never fails inside a model, and never returns a result.
C11_AlphaOutOfRange ==
    (call.name = "run_analysis" /\ call.alpha \in OutOfRangeAlphas)
    => pc \notin {"sampling", "blended", "returned", "raised"}

\* C12: constructing or running ShapleyAttribution with max_iterations <= 0
\* raises a configuration error before any coalition value is computed: the
\* run never reaches its sampling loop and never returns channel values.
C12_MaxIterationsRejected ==
    (call.name = "shapley" /\ call.max_iterations <= 0)
    => pc \notin {"sampling", "returned"}

\* calculate_shapley_values has returned on an instance a caller holds
CalculateReturned == pc = "returned" /\ call.name = "shapley"

\* C13: two runs of calculate_shapley_values on the same journeys that draw
\* the same sequence of permutations return identical channel_values for
\* every channel, the second run being on the instance of the first, whose
\* memoization cache is already populated.
C13_ShapleyDeterministic ==
    (CalculateReturned /\ previous.ran /\ previous.drawn = drawn)
    => /\ DOMAIN shapley_result = DOMAIN previous.channel_values
       /\ \A c \in DOMAIN shapley_result :
              shapley_result[c] = previous.channel_values[c]

\* C13 witness: a second run on a populated cache drew the same two distinct
\* permutations as the first and returned the same non-uniform values.
C13_Witness ==
    /\ CalculateReturned
    /\ previous.ran
    /\ previous.drawn = drawn
    /\ Len(drawn) = 2 /\ drawn[1] # drawn[2]
    /\ result.channel_values = previous.channel_values
    /\ \E c \in DOMAIN shapley_result : shapley_result[c] \notin {Zero, Rat(1, 2)}

\* the filtered journeys (by index) whose path contains channel c
Containing(c) ==
    {i \in 1..Len(filtered_journeys) :
        \E k \in 1..Len(filtered_journeys[i].path) :
            filtered_journeys[i].path[k] = c}

\* (0-based index of c's first occurrence) / max(len(path) - 1, 1)
RelativePosition(path, c) ==
    LET first == CHOOSE k \in 1..Len(path) :
                    path[k] = c /\ \A m \in 1..Len(path) : path[m] = c => k <= m
        last == Len(path) - 1
    IN  Rat(first - 1, IF last >= 1 THEN last ELSE 1)

\* C14: for every channel c in channel_metrics, avg_position is the mean,
\* over the filtered journeys containing c, of the relative position of c's
\* first occurrence; it lies in [0,1] and is exactly 0 whenever c is the
\* first touch of every journey containing it.
C14_AvgPosition ==
    AnalysisReturned
    => \A c \in DOMAIN result.channel_metrics :
          LET avg == result.channel_metrics[c].avg_position
              positions == [i \in Containing(c) |->
                               RelativePosition(filtered_journeys[i].path, c)]
          IN  /\ Containing(c) # {}
              /\ RMul(avg, Rat(Cardinality(Containing(c)), 1))
                    = SumValues(positions)
              /\ RLeq(Zero, avg) /\ RLeq(avg, One)
              /\ (\A i \in Containing(c) : filtered_journeys[i].path[1] = c)
                    => avg = Zero

\* C14 witness: an analysis returned metrics for a channel that is the only
\* touch of one journey and the last of two touches of another (average
\* position 1/2), and for a channel that is always the first touch.
C14_Witness ==
    /\ AnalysisReturned
    /\ \E c \in DOMAIN result.channel_metrics :
          /\ result.channel_metrics[c].avg_position = Rat(1, 2)
          /\ \E i \in Containing(c) : Len(filtered_journeys[i].path) = 1
          /\ \E i \in Containing(c) :
                /\ Len(filtered_journeys[i].path) = 2
                /\ filtered_journeys[i].path[1] # c
    /\ \E c \in DOMAIN result.channel_metrics :
          /\ result.channel_metrics[c].avg_position = Zero
          /\ \E i \in Containing(c) : Len(filtered_journeys[i].path) = 2

\* the outcomes run_analysis(alpha) has on an engine no other call touches:
\* the hybrid branch runs the HybridAttribution it has just stored
AloneOutcomes(js, alpha) ==
    {AnalysisOutcome(js, alpha, HybridInstance(js, alpha), seq) :
        seq \in SampleSequences(js)}

\* C15: for any interleaving of the steps of two run_analysis calls on the
\* same AttributionEngine instance (any pair of alphas), each call that
\* ends has returned a result it can return when run alone.
C15_ConcurrentCallsIndependent ==
    \A t \in Threads :
        threads[t].pc \in {"returned", "raised"}
        => threads[t].outcome \in AloneOutcomes(journeys, threads[t].alpha)

\* the journeys (by index) of the instance whose whole path lies inside S
Inside(S) ==
    {i \in 1..Len(filtered_journeys) :
        {filtered_journeys[i].path[k] :
            k \in 1..Len(filtered_journeys[i].path)} \subseteq S}

\* C16: within one ShapleyAttribution instance, across all sampled
\* permutations and repeated calculate_shapley_values calls, the value of
\* each distinct coalition S is computed from the journeys at most once, and
\* the cached value every later lookup returns is the conversion rate of
\* the journeys whose whole path lies inside S (0 when there are none).
C16_CoalitionComputedOnce ==
    call.name = "shapley"
    => /\ \A S \in DOMAIN computed : computed[S] <= 1
       /\ DOMAIN computed = DOMAIN conversion_rate_cache
       /\ \A S \in DOMAIN conversion_rate_cache :
              conversion_rate_cache[S] =
                  IF Inside(S) = {} THEN Zero
                  ELSE Rat(Cardinality({i \in Inside(S) :
                                          filtered_journeys[i].conversion}),
                           Cardinality(Inside(S)))

\* C16 witness: a second calculate_shapley_values call on the same instance
\* has returned, both calls having walked two permutations, and each of the
\* four coalitions of two channels was computed exactly once, some of them
\* to a rate other than 0.
C16_Witness ==
    /\ CalculateReturned
    /\ previous.ran
    /\ Len(previous.drawn) = 2 /\ Len(drawn) = 2
    /\ DOMAIN computed = SUBSET ExtractChannels(filtered_journeys)
    /\ Cardinality(DOMAIN computed) = 4
    /\ \A S \in DOMAIN computed : computed[S] = 1
    /\ \E S \in DOMAIN conversion_rate_cache :
          conversion_rate_cache[S] \notin {Zero, One}

\* the concatenation of the argument lists of the merge that returned
AllEvents == Extend(merge_call.event_lists, 1)

\* the positions in AllEvents of the first event of each key
FirstOccurrences ==
    {i \in 1..Len(AllEvents) :
        \A k \in 1..(i - 1) :
            <<AllEvents[k].timestamp, AllEvents[k].user_id,
              AllEvents[k].channel, AllEvents[k].event_type>>
            # <<AllEvents[i].timestamp, AllEvents[i].user_id,
                AllEvents[i].channel, AllEvents[i].event_type>>}

C18_MarkovUniformFallback ==
    (/\ AnalysisReturned
     /\ result.markov_result.populated
     /\ Len(filtered_journeys) > 0
     /\ CountConversions(filtered_journeys) > 0
     /\ \A c \in DOMAIN result.markov_result.removal_effects :
            result.markov_result.removal_effects[c] = Zero)
    => \A c \in ExtractChannels(filtered_journeys) :
          /\ c \in DOMAIN result.markov_result.channel_attributions
          /\ result.markov_result.channel_attributions[c]
                = Rat(1, Cardinality(ExtractChannels(filtered_journeys)))

\* C19: for a journey list with n >= 1 channels whose raw Shapley values
\* (before normalization) sum to a value <= 0, every channel's returned
\* channel_value is 1/n.
C19_ShapleyUniformFallback ==
    (/\ ShapleyComputed
     /\ Cardinality(ExtractChannels(filtered_journeys)) >= 1
     /\ RLeq(SumValues(RawValues), Zero))
    => \A c \in ExtractChannels(filtered_journeys) :
          /\ c \in DOMAIN shapley_result
          /\ shapley_result[c]
                = Rat(1, Cardinality(ExtractChannels(filtered_journeys)))

\* C20: the coalition value of the empty coalition is 0 for every journey
\* list, lists with empty-path journeys included: once
\* _get_conversion_rate(frozenset()) has been called, the rate it returned
\* and cached is 0.
C20_EmptyCoalitionValue ==
    {} \in DOMAIN conversion_rate_cache => conversion_rate_cache[{}] = Zero

\* run_analysis has returned a result whose Markov model is populated
MarkovReturned == AnalysisReturned /\ result.markov_result.populated

\* C21: the transition table of a Markov result is row-stochastic: it has a
\* row for every channel of the channel universe, the row's entries over all
\* channels plus "conversion" are each in [0, 1], and they sum to exactly 1.
C21_RowStochastic ==
    MarkovReturned =>
        LET matrix == result.markov_result.transition_matrix
            universe == ExtractChannels(filtered_journeys)
        IN  /\ DOMAIN matrix = universe
            /\ \A c \in universe :
                /\ DOMAIN matrix[c] = universe \cup {"conversion"}
                /\ \A d \in DOMAIN matrix[c] :
                      RLeq(Zero, matrix[c][d]) /\ RLeq(matrix[c][d], One)
                /\ SumValues(matrix[c]) = One

\* a table with a row that splits its weight between a next channel and
\* "conversion" has been returned
C21_Witness ==
    /\ MarkovReturned
    /\ \E c \in DOMAIN result.markov_result.transition_matrix :
          LET row == result.markov_result.transition_matrix[c] IN
          /\ RLt(Zero, row["conversion"]) /\ RLt(row["conversion"], One)
          /\ \E d \in DOMAIN row \ {"conversion", c} : RLt(Zero, row[d])

\* the number of journeys whose (non-empty) path ends at channel c
EndingAt(js, c) ==
    Cardinality({i \in 1..Len(js) :
        Len(js[i].path) > 0 /\ js[i].path[Len(js[i].path)] = c})

\* C22: when the Markov model is built, the un-normalized count of the
\* transition from a channel to "conversion" equals the number of journeys
\* whose path ends at that channel, however many journeys share one path.
C22_ConversionCounts ==
    MarkovReturned =>
        \A c \in ExtractChannels(filtered_journeys) :
            CountTransitions(filtered_journeys, 1, NoTransitions,
                             NoPathCounts)[c]["conversion"]
                = EndingAt(filtered_journeys, c)

\* C23: the iterations field of a Shapley result equals the number of
\* permutations sampled while its channel_values were computed: 0 when the
\* empty result was returned without sampling.
C23_IterationsAreSamples ==
    (AnalysisReturned /\ result.shapley_result.populated)
        => result.shapley_result.iterations = samples

\* the in-scope channel universe of the call: the channels of the filtered
\* journeys, inside the filter when one is given
InScope ==
    {c \in Channels \cup F :
        /\ Containing(c) # {}
        /\ FilterApplies(call.filter_channels) => c \in F}

\* C24: in every run_analysis result channel_metrics has one entry per
\* channel of the in-scope universe; its touchpoint_count is the number of
\* filtered journeys containing the channel (once per journey), its
\* conversion_rate the converted journeys among those divided by that count,
\* and channels_summary[c] equals the touchpoint_count of c's entry.
C24_ChannelMetrics ==
    AnalysisReturned =>
        /\ DOMAIN result.channel_metrics = InScope
        /\ DOMAIN result.channels_summary = InScope
        /\ \A c \in InScope :
            LET entry == result.channel_metrics[c]
                converted == {i \in Containing(c) :
                                 filtered_journeys[i].conversion}
            IN  /\ entry.touchpoint_count = Cardinality(Containing(c))
                /\ entry.conversion_rate[1] * Cardinality(Containing(c))
                      = Cardinality(converted) * entry.conversion_rate[2]
                /\ result.channels_summary[c] = entry.touchpoint_count

\* a filtered call has returned metrics for a channel that occurs twice in
\* one journey, next to a journey with a channel outside the filter
C24_Witness ==
    /\ AnalysisReturned
    /\ FilterApplies(call.filter_channels)
    /\ \E c \in InScope :
          /\ \E i \in Containing(c) :
                Cardinality({k \in 1..Len(filtered_journeys[i].path) :
                    filtered_journeys[i].path[k] = c}) > 1
          /\ \E i \in Containing(c) : filtered_journeys[i].conversion
          /\ \E i \in Containing(c) : ~filtered_journeys[i].conversion
    /\ ExtractChannels(filtered_journeys) # InScope

\* the outcome of the call in progress on a freshly constructed engine
\* (self.hybrid is None when the call begins), for the same permutations
FreshOutcome ==
    EngineOutcome(FilterJourneys(journeys, call.filter_channels), call.alpha,
        call.filter_channels,
        StoredHybrid(None, FilterJourneys(journeys, call.filter_channels),
                     call.alpha),
        drawn)

\* C25: for any sequence of run_analysis calls on one AttributionEngine, no
\* call changes the engine's journeys, and each call's outcome equals the
\* outcome of the same call, drawing the same permutations, on a fresh
\* engine, whatever the alphas and filters of the calls before it.
C25_HistoryIndependence ==
    /\ []((pc \in {"returned", "raised"} /\ call.name = "run_analysis")
            => result = FreshOutcome)
    /\ [][journeys' = journeys]_vars

\* a hybrid call has returned on an engine whose self.hybrid held the
\* model of an earlier call with another alpha and other filtered journeys
C25_Witness ==
    /\ AnalysisReturned
    /\ result.hybrid_result.populated
    /\ left_hybrid # None
    /\ left_hybrid.alpha # call.alpha
    /\ left_hybrid.journeys # filtered_journeys
    /\ Len(filtered_journeys) > 0

\* v(S): the conversion rate of coalition S on the journeys of the call
CoalitionValue(S) == ComputeConversionRate(filtered_journeys, S)

\* at least one permutation has been walked to its end by the call
Sampled == pc \in {"sampling", "blended", "returned"} /\ samples >= 1

\* C26: Shapley efficiency under sampling: after any number >= 1 of sampled
\* permutations, whichever they are, the raw (pre-normalization) Shapley
\* values sum to v(all channels) - v(empty coalition).
C26_ShapleyEfficiency ==
    Sampled =>
        SumValues(RawValues)
            = RSub(CoalitionValue(ExtractChannels(filtered_journeys)),
                   CoalitionValue({}))

\* several permutations of two channels have been sampled, both raw values
\* are non-zero and the empty coalition has a non-zero value
C26_Witness ==
    /\ Sampled
    /\ samples >= 3
    /\ Cardinality(DOMAIN RawValues) = 2
    /\ \A c \in DOMAIN RawValues : RawValues[c] # Zero
    /\ CoalitionValue({}) # Zero

\* C27: in every run_analysis result the populated model's attribution
\* mapping has the keys of channels_summary, the reported channel universe;
\* with a filter, no attribution is reported for a channel outside it.
C27_SharedVocabulary ==
    AnalysisReturned =>
        /\ DOMAIN PopulatedMapping = DOMAIN result.channels_summary
        /\ FilterApplies(call.filter_channels) => DOMAIN PopulatedMapping \subseteq F

\* C28: for every channel of a Markov result produced from journeys with at
\* least one conversion, the confidence interval is well-formed:
\* 0 <= low <= high, and the channel's attribution lies between low and
\* high whenever the attribution is non-negative.
C28_ConfidenceInterval ==
    (MarkovReturned /\ CountConversions(filtered_journeys) >= 1) =>
        \A c \in DOMAIN result.markov_result.confidence_interval :
            LET ci == result.markov_result.confidence_interval[c]
                attribution ==
                    Surd(result.markov_result.channel_attributions[c], 0, Zero)
            IN  /\ SurdLeq(Surd(Zero, 0, Zero), ci.low)
                /\ SurdLeq(ci.low, ci.high)
                /\ RLeq(Zero, attribution.a) =>
                      SurdLeq(ci.low, attribution) /\ SurdLeq(attribution, ci.high)

\* C29: every request to compute_uncertainty with a non-empty journey list
\* and alpha in [0, 1] is answered with the confidence-interval payload
\* (markov_ci, hybrid_ci, total_journeys, total_touchpoints), whichever of
\* the model results run_analysis left null for that alpha.
C29_UncertaintyPayload ==
    (/\ pc \in {"returned", "raised"}
     /\ call.name = "compute_uncertainty"
     /\ Len(journeys) > 0)
    => /\ result.status = "ok"
       /\ DOMAIN result = {"status", "markov_ci", "hybrid_ci",
                           "total_journeys", "total_touchpoints"}

\* what normalize answers on a taxonomy that has the module's mappings and
\* its own custom mappings, and nothing of any other instance
IsolatedValue(custom, raw_channel, source) ==
    LET own == Len(ModuleDicts) + 1
        known == custom.source \in DOMAIN ChannelMappings
        dicts == Append(ModuleDicts,
                    IF known
                    THEN Update(ModuleDicts[ChannelMappings[custom.source]],
                                custom.mapping)
                    ELSE custom.mapping)
        mappings == IF ~custom.given THEN ChannelMappings
                    ELSE [s \in DOMAIN ChannelMappings \cup {custom.source} |->
                            IF s = custom.source THEN own
                            ELSE ChannelMappings[s]]
    IN  Normalize(dicts, mappings, raw_channel, source)

\* C30: ChannelTaxonomy instances are isolated: constructing one with
\* custom_mappings (also for an existing source such as 'ga') leaves the
\* module-level CHANNEL_MAPPINGS unchanged, and changes neither what
\* normalize returns on another instance, constructed earlier or later, nor
\* what normalize_channel returns.
C30_TaxonomiesIsolated ==
    /\ \A s \in DOMAIN ChannelMappings :
          heap[ChannelMappings[s]] = ModuleDicts[ChannelMappings[s]]
    /\ normalized # NotNormalized =>
          normalized.value =
             IsolatedValue(IF normalized.instance = 0 THEN NoMappings
                           ELSE taxonomies[normalized.instance].custom,
                           normalized.raw_channel, normalized.source)
====
